---------------------------- MODULE Spec2Model ----------------------------
(***************************************************************************)
(* State-machine model of the scheduling / progression engine of           *)
(* src/ai_learning_app.py (class AILearningApp).                           *)
(*                                                                         *)
(* The in-memory object is the record `self`, the persisted JSON document  *)
(* student_progress.json is the record `file`, `today` is the calendar     *)
(* date returned by datetime.now().date(), and `quiz` holds the attributes *)
(* of the quiz on screen and the pending timer callbacks, and `stack` is   *)
(* the call stack of a call that is followed step by step.  Every method  *)
(* of the class is                                                         *)
(* an operator from a "world" [self, file] to the world it leaves behind,  *)
(* so that a method calling another method (add_xp -> unlock_achievement   *)
(* -> add_xp -> save_data) is the composition of the operators.            *)
(*                                                                         *)
(* Encodings                                                               *)
(*   - dates are day numbers; date.isoformat() strings order the same way. *)
(*     The attribute value None of a date is NoDate.                       *)
(*   - mastery is stored in half points (Half = 2 units per mastery point) *)
(*     because the code moves it in steps of 1 and 0.5.                    *)
(*   - item strength is stored in tenths (Tenth = 10 units per point)      *)
(*     because the code moves it in steps of 1, 0.7 and 0.4.               *)
(*   - a Python dict is a function whose DOMAIN is its key set.  A topic   *)
(*     key is <<"int", t>> (the int t) or <<"str", t>> (the string str(t)).*)
(*                                                                         *)
(*   - self.completed_quests is a list that is only tested for membership, *)
(*     measured with len() and appended to when the quest is absent: a set *)
(*     of quest records.  The title and description of a quest are texts   *)
(*     fixed by its type and target topic and are left out of the record.  *)
(*                                                                         *)
(* Specifications: SpecSR (topic mastery and review schedule), SpecMemory  *)
(* (per-item memory and review queue), SpecLedger (xp, level,              *)
(* achievements, streak), SpecQuest and SpecUnlock (daily and weekly       *)
(* quests, feature unlocks), SpecStreak (streak guardrails and freezes),   *)
(* SpecSession (scored sessions), SpecWeakest (weakest-topic lookup),       *)
(* SpecDifficulty (adaptive difficulty), SpecLoad (start-up), SpecFrame     *)
(* (sessions and the mastery of other topics), SpecQuestDay (one day of    *)
(* quests, sessions and restarts), SpecEarn (earned freezes), SpecTimer     *)
(* (the timed quiz on screen) and SpecXp / SpecXpFair (add_xp followed     *)
(* call by call).                                                          *)
(* Each runs the operations of one component.                              *)
(***************************************************************************)
EXTENDS Integers, Sequences, FiniteSets, TLC

(***************************************************************************)
(* Bounds of the model                                                     *)
(***************************************************************************)
MaxTopic == 1      \* topics 1..MaxTopic of the catalog are exercised
MaxDay == 7        \* the clock runs over days 0..MaxDay
MaxReviewDay == 1  \* ... and over 0..MaxReviewDay where reviews are scheduled
MaxUpdates == 6    \* scored sessions in one behaviour
MaxItem == 1       \* quiz items 1..MaxItem are answered
MaxAnswers == 6    \* answers recorded in one behaviour
MaxXp == 250       \* xp is awarded while xp < MaxXp
MaxQuestDay == 1   \* the clock runs over days 0..MaxQuestDay for the quests
MaxQuestTopic == 2 \* topics 1..MaxQuestTopic are studied for a quest
MaxPlayedDays == 12   \* days of completed quests behind the learner at most
MaxStreakDay == 5  \* the clock runs over days 0..MaxStreakDay for the guardrails
MaxSessions == 2   \* scored sessions in one behaviour of the session component
MaxWeakTopic == 3  \* topics 1..MaxWeakTopic may have been attempted
MaxAttempts == 2   \* answers counted for a topic at most
MaxDiffTopic == 1  \* topics 1..MaxDiffTopic have an accuracy record
MaxDiffTotal == 10 \* answers counted for a topic whose difficulty is asked
MaxLoadSessions == 1  \* scored sessions before the file is lost or damaged
MaxFrameTopic == 2 \* topics 1..MaxFrameTopic may have a mastery entry
MaxFrameSessions == 1 \* scored sessions on top of these entries
MaxDayTopic == 2   \* topics 1..MaxDayTopic were answered before the quest day
MaxDayAttempts == 1   \* answers counted for each of them before that day
MaxDaySessions == 1   \* scored sessions on the quest day
MaxEarnDay == 4    \* the clock runs over days 0..MaxEarnDay for earned freezes
MaxEarnSessions == 6  \* scored sessions in one behaviour of that component
MaxTimedSessions == 2 \* timed quizzes started in one behaviour
MaxScored == 2     \* finish_quiz runs that are followed for one timed quiz
MaxTimers == 5     \* pending update_timer callbacks at most
MaxDepth == 8      \* frames on the call stack of add_xp at most
MaxXpCalls == 3    \* add_xp calls followed in one behaviour
QuestAmounts == {1, 5}   \* amounts passed to update_quest_progress
XpAmounts == {0, 5, 10, 25, 100}   \* amounts passed to add_xp
Scores == {59, 60, 79, 80, 90}   \* session scores in percent
(* <<questions, correct answers>> of a scored session: 100, 90, 70, 60 percent *)
SessionResults == {<<5, 5>>, <<10, 9>>, <<10, 7>>, <<10, 6>>}
SessionTimes == {40, 60}   \* elapsed seconds of a scored session

(***************************************************************************)
(* Program constants                                                       *)
(***************************************************************************)
NumTopics == 10    \* len(self.topics)
MaxFreezes == 5
MaxMastery == 5
Half == 2
XpPerLevel == 100
MaxStrength == 5
Tenth == 10
AchievementBonus == 50
NoDate == -1
Infinity == 1000000   \* float('inf'): above every elapsed time

Topics == 1..MaxTopic
(* an item is named by its get_question_id() string; the model numbers them *)
Items == 1..MaxItem
QuestTypes == {"quiz", "study", "review", "mastery"}
(* the topic argument of update_quest_progress; 0 is None *)
QuestTopics == 0..MaxQuestTopic
(* the update_quest_progress calls of the program: study_topic passes the  *)
(* topic, finish_quiz passes none; a quiz reports its questions            *)
QuestCalls ==
    {[quest_type |-> "quiz", amount |-> amount, topic |-> 0] :
        amount \in QuestAmounts}
    \cup {[quest_type |-> "study", amount |-> 1, topic |-> topic] :
            topic \in QuestTopics}
    \cup {[quest_type |-> quest_type, amount |-> 1, topic |-> 0] :
            quest_type \in {"review", "mastery"}}
(* the radio buttons' values, and "unsure" for any other string *)
Confidences == {"low", "medium", "high", "unsure"}

IntKey(t) == <<"int", t>>
StrKey(t) == <<"str", t>>
EmptyDict == [k \in {} |-> 0]

Min(a, b) == IF a < b THEN a ELSE b
Max(a, b) == IF a > b THEN a ELSE b

(* d[key] = value of a dict *)
DictSet(d, key, value) ==
    [k \in (DOMAIN d) \cup {key} |-> IF k = key THEN value ELSE d[k]]

(* d.get(key, default) *)
DictGet(d, key, default) == IF key \in DOMAIN d THEN d[key] ELSE default

RECURSIVE SumValues(_)
(* sum(d.values()) *)
SumValues(d) ==
    IF DOMAIN d = {} THEN 0
    ELSE LET k == CHOOSE x \in DOMAIN d : TRUE
         IN d[k] + SumValues([j \in (DOMAIN d) \ {k} |-> d[j]])

(***************************************************************************)
(* json.dump followed by json.load of a dict keyed by topic.  json.dump    *)
(* writes an int key t as the string str(t); when the dict holds both      *)
(* str(t) and t the text has the member str(t) twice and json.load keeps   *)
(* the later one.  A dict gets its string keys from load_data and its int  *)
(* keys from later writes, so the int key's value is the later member.     *)
(***************************************************************************)
JsonTopicDict(d) ==
    LET ts == {k[2] : k \in DOMAIN d}
    IN [k \in {StrKey(t) : t \in ts} |->
            IF IntKey(k[2]) \in DOMAIN d THEN d[IntKey(k[2])] ELSE d[k]]

VARIABLES self, file, today, hist, quiz, stack
vars == <<self, file, today, hist, quiz, stack>>

(***************************************************************************)
(* AILearningApp.__init__: the attributes before load_data runs.           *)
(***************************************************************************)
Fresh ==
    [xp |-> 0,
     level |-> 1,
     streak |-> 0,
     last_study_date |-> NoDate,
     achievements |-> {},
     review_schedule |-> EmptyDict,
     mastery_levels |-> EmptyDict,
     question_memory |-> EmptyDict,
     review_queue |-> <<>>,
     topic_accuracy |-> EmptyDict,
     personal_bests |-> [best_accuracy |-> 0, fastest_quiz |-> Infinity,
                         longest_streak |-> 0, highest_single_quiz |-> 0],
     scores |-> EmptyDict,
     progress |-> EmptyDict,
     total_questions_answered |-> 0,
     correct_answers |-> 0,
     total_time_spent |-> 0,
     daily_challenge_completed |-> NoDate,
     active_quests |-> <<>>,
     completed_quests |-> {},
     streak_freezes |-> 2,
     streak_freeze_used_today |-> FALSE,
     unlocked_features |-> [hard_mode |-> FALSE, exam_simulator |-> FALSE,
                            bonus_visualizations |-> FALSE,
                            case_studies |-> FALSE]]

(* student_progress.json: whether it exists, whether json.load accepts it, *)
(* and the document last written to it                                     *)
NoFile == [exists |-> FALSE, parses |-> FALSE, data |-> Fresh]

(* The document json.dump writes, as json.load reads it back. *)
JsonDocument(s) ==
    [s EXCEPT !.review_schedule = JsonTopicDict(@),
              !.mastery_levels = JsonTopicDict(@),
              !.topic_accuracy = JsonTopicDict(@),
              !.progress = JsonTopicDict(@)]

(* mutant: the state is written without refreshing the longest streak *)
save_data_AsIs(w) ==
    [self |-> w.self,
     file |-> [exists |-> TRUE, parses |-> TRUE, data |-> JsonDocument(w.self)]]

(* save_data: refresh the longest streak, then write the whole state. *)
save_data(w) ==
    LET s == IF w.self.streak > w.self.personal_bests.longest_streak
             THEN [w.self EXCEPT !.personal_bests.longest_streak = w.self.streak]
             ELSE w.self
    IN [self |-> s,
        file |-> [exists |-> TRUE, parses |-> TRUE, data |-> JsonDocument(s)]]

(***************************************************************************)
(* get_weakest_topic: one pass over the catalog in key order.  An accuracy *)
(* correct / total * 100 is the fraction [n |-> correct * 100, d |-> total]*)
(* and weakest = 0 stands for None.                                        *)
(***************************************************************************)
RECURSIVE WeakestScan(_, _, _, _)
WeakestScan(acc, t, weakest, lowest) ==
    IF t > NumTopics THEN [topic |-> weakest, lowest_acc |-> lowest]
    ELSE LET a == DictGet(acc, StrKey(t), [correct |-> 0, total |-> 0])
         IN IF a.total > 0
            THEN IF a.correct * 100 * lowest.d < lowest.n * a.total
                 THEN WeakestScan(acc, t + 1, t,
                                  [n |-> a.correct * 100, d |-> a.total])
                 ELSE WeakestScan(acc, t + 1, weakest, lowest)
            ELSE IF weakest = 0
                 THEN WeakestScan(acc, t + 1, t, [n |-> 0, d |-> 1])
                 ELSE WeakestScan(acc, t + 1, weakest, lowest)

get_weakest_topic(s) == WeakestScan(s.topic_accuracy, 1, 0, [n |-> 101, d |-> 1])

(* mutant: exactly 50 percent already counts as weak *)
get_adaptive_difficulty_Inclusive(s, topic_num) ==
    LET acc_data == DictGet(s.topic_accuracy, StrKey(topic_num),
                            [correct |-> 0, total |-> 0])
    IN IF acc_data.total < 5 THEN "normal"
       ELSE IF acc_data.correct * 100 <= 50 * acc_data.total THEN "easy"
       ELSE IF acc_data.correct * 100 > 80 * acc_data.total THEN "hard"
       ELSE "normal"

(* get_adaptive_difficulty(topic_num); the accuracy correct / total * 100  *)
(* is compared as a fraction, which the float comparison agrees with       *)
get_adaptive_difficulty(s, topic_num) ==
    LET acc_data == DictGet(s.topic_accuracy, StrKey(topic_num),
                            [correct |-> 0, total |-> 0])
    IN IF acc_data.total < 5 THEN "normal"
       ELSE IF acc_data.correct * 100 < 50 * acc_data.total THEN "easy"
       ELSE IF acc_data.correct * 100 > 80 * acc_data.total THEN "hard"
       ELSE "normal"

(* datetime.now().weekday(); day 0 of the model is a Monday. *)
Weekday(d) == d % 7

(* generate_daily_quests: replace the active quests by today's batch. *)
generate_daily_quests(w, now) ==
    LET weakest_topic == get_weakest_topic(w.self).topic
        daily ==
          << [id |-> <<"daily_quiz", now>>, type |-> "quiz", target |-> 5,
              progress |-> 0, xp_reward |-> 25, generated_date |-> now,
              target_topic |-> 0, is_weekly |-> FALSE],
             [id |-> <<"topic_study", now>>, type |-> "study", target |-> 1,
              progress |-> 0, xp_reward |-> 15, generated_date |-> now,
              target_topic |-> weakest_topic, is_weekly |-> FALSE],
             [id |-> <<"review", now>>, type |-> "review", target |-> 1,
              progress |-> 0, xp_reward |-> 20, generated_date |-> now,
              target_topic |-> 0, is_weekly |-> FALSE] >>
        weekly ==
          << [id |-> <<"weekly_mastery", now>>, type |-> "mastery",
              target |-> 3, progress |-> 0, xp_reward |-> 100,
              generated_date |-> now, target_topic |-> 0,
              is_weekly |-> TRUE] >>
        quest_templates == IF Weekday(now) = 0 THEN daily \o weekly ELSE daily
    IN save_data([w EXCEPT !.self.active_quests = quest_templates])

(* check_and_generate_quests *)
check_and_generate_quests(w, now) ==
    IF w.self.active_quests = <<>>
       \/ w.self.active_quests[1].generated_date # now
    THEN generate_daily_quests(w, now)
    ELSE w

(***************************************************************************)
(* load_data, run by the constructor: every persisted attribute is taken   *)
(* from the file when it exists and json.load accepts it (the except       *)
(* clause passes over a file it rejects), then today's quests are          *)
(* generated.                                                              *)
(***************************************************************************)
(* mutant: a file that exists is taken over, readable or not *)
load_data_Trusting(w, now) ==
    check_and_generate_quests(
        IF w.file.exists THEN [w EXCEPT !.self = w.file.data] ELSE w, now)

load_data(w, now) ==
    check_and_generate_quests(
        IF w.file.exists /\ w.file.parses
        THEN [w EXCEPT !.self = w.file.data] ELSE w, now)

(* Starting the program: __init__ on the file the last run left. *)
Boot(f, now) == load_data([self |-> Fresh, file |-> f], now)

(***************************************************************************)
(* Spaced repetition                                                       *)
(***************************************************************************)
(* check_spaced_repetition(topic_num): key is the key the caller passes. *)
check_spaced_repetition(s, key, now) ==
    LET next_review == DictGet(s.review_schedule, key, NoDate)
    IN IF next_review = NoDate THEN TRUE ELSE now >= next_review

(* [1, 3, 7, 14, 30, 60][min(int(mastery), 5)] *)
ReviewDays == <<1, 3, 7, 14, 30, 60>>

(* mutant: the table is indexed by the rounded, not the truncated, mastery *)
days_until_review_Rounded(mastery) ==
    ReviewDays[Min((mastery + 1) \div Half, 5) + 1]

days_until_review(mastery) == ReviewDays[Min(mastery \div Half, 5) + 1]

(* mutant: promotion without the cap at 5 *)
NewMastery_NoCap(mastery, score) ==
    IF score >= 80 THEN mastery + Half
    ELSE IF score >= 60 THEN Max(0, mastery - (Half \div 2))
    ELSE Max(0, mastery - Half)

(* the three branches on performance_score; score is in percent *)
NewMastery(mastery, score) ==
    IF score >= 80 THEN Min(MaxMastery * Half, mastery + Half)
    ELSE IF score >= 60 THEN Max(0, mastery - (Half \div 2))
    ELSE Max(0, mastery - Half)

(* update_spaced_repetition(topic_num, performance_score) *)
update_spaced_repetition(w, key, score, now) ==
    LET mastery == NewMastery(DictGet(w.self.mastery_levels, key, 0), score)
    IN save_data([w EXCEPT
         !.self.mastery_levels = DictSet(@, key, mastery),
         !.self.review_schedule =
              DictSet(@, key, now + days_until_review(mastery))])

(***************************************************************************)
(* get_exam_readiness: int((total_mastery / max_mastery) * 100).  The two  *)
(* float operations round; FloatShort lists the totals (in half points)    *)
(* for which the product lands just below the exact integer, so that int() *)
(* yields one less than the exact quotient.                                *)
(***************************************************************************)
FloatShort == {29, 57, 58, 113, 114, 115, 116}

get_exam_readiness(s) ==
    IF DOMAIN s.mastery_levels = {} THEN 0
    ELSE LET total_mastery == SumValues(s.mastery_levels)
             max_mastery == NumTopics * MaxMastery
             exact == (total_mastery * 100) \div (max_mastery * Half)
         IN IF total_mastery \in FloatShort THEN exact - 1 ELSE exact

(***************************************************************************)
(* Per-item memory                                                         *)
(***************************************************************************)
(* question['topic'] of the item with id q_id *)
ItemTopic(q_id) == ((q_id - 1) % MaxTopic) + 1

(* q_id in self.review_queue *)
InQueue(queue, q_id) == \E i \in 1..Len(queue) : queue[i] = q_id

(* mutant: the id is appended whether or not it is queued already *)
ReviewQueueAdd_Always(queue, q_id) == Append(queue, q_id)

(* if q_id not in self.review_queue: self.review_queue.append(q_id) *)
ReviewQueueAdd(queue, q_id) ==
    IF InQueue(queue, q_id) THEN queue ELSE Append(queue, q_id)

(* mutant: every correct answer gains a full point *)
strength_gain_Flat(confidence) == Tenth

(* 1 if confidence == 'high' else 0.7 if confidence == 'medium' else 0.4 *)
strength_gain(confidence) ==
    IF confidence = "high" THEN Tenth
    ELSE IF confidence = "medium" THEN 7
    ELSE 4

(* update_question_memory(question, is_correct, confidence) *)
update_question_memory(w, q_id, is_correct, confidence, now) ==
    LET memory == IF q_id \in DOMAIN w.self.question_memory
                  THEN w.self.question_memory
                  ELSE DictSet(w.self.question_memory, q_id,
                         [strength |-> 0, last_seen |-> NoDate,
                          confidence |-> confidence, times_correct |-> 0,
                          times_wrong |-> 0, topic |-> ItemTopic(q_id)])
        seen == [memory[q_id] EXCEPT !.last_seen = now,
                                     !.confidence = confidence]
        mem == IF is_correct
               THEN [seen EXCEPT
                       !.times_correct = @ + 1,
                       !.strength = Min(MaxStrength * Tenth,
                                        @ + strength_gain(confidence))]
               ELSE [seen EXCEPT
                       !.times_wrong = @ + 1,
                       !.strength = Max(0, @ - Tenth)]
    IN save_data([w EXCEPT
         !.self.question_memory = DictSet(memory, q_id, mem),
         !.self.review_queue =
              IF is_correct THEN @ ELSE ReviewQueueAdd(@, q_id)])

(* _add_to_review(q_id): saves only when the id was appended *)
add_to_review(w, q_id) ==
    IF InQueue(w.self.review_queue, q_id) THEN w
    ELSE save_data([w EXCEPT
           !.self.review_queue = ReviewQueueAdd(@, q_id)])

(***************************************************************************)
(* Progression ledger.  An achievement name is a pair: "Level N Reached!"  *)
(* is <<"Level", N>>, "N Day Streak!" is <<"Streak", N>> and a fixed name  *)
(* is <<name, 0>>.  self.achievements is a list that is only tested for    *)
(* membership and appended to when the name is absent: a set.              *)
(***************************************************************************)
RECURSIVE add_xp(_, _), unlock_achievement(_, _)

(* add_xp(amount) *)
add_xp(w, amount) ==
    LET xp == w.self.xp + amount
        old_level == w.self.level
        level == 1 + (xp \div XpPerLevel)
        w1 == [w EXCEPT !.self.xp = xp, !.self.level = level]
    IN save_data(IF level > old_level
                 THEN unlock_achievement(w1, <<"Level", level>>)
                 ELSE w1)

(* mutant: the bonus is added to xp without recomputing the level *)
unlock_achievement_Direct(w, achievement_name) ==
    IF achievement_name \in w.self.achievements THEN w
    ELSE save_data([w EXCEPT
           !.self.achievements = @ \cup {achievement_name},
           !.self.xp = @ + AchievementBonus])

(* unlock_achievement(achievement_name) *)
unlock_achievement(w, achievement_name) ==
    IF achievement_name \in w.self.achievements THEN w
    ELSE save_data(add_xp([w EXCEPT !.self.achievements =
                                       @ \cup {achievement_name}],
                          AchievementBonus))

(* mutant: a gap of more than one day continues the streak *)
update_streak_NoReset(w, now) ==
    IF w.self.last_study_date # now
    THEN LET streak == w.self.streak + 1
             w1 == [w EXCEPT !.self.streak = streak,
                             !.self.last_study_date = now]
         IN save_data(IF streak % 7 = 0
                      THEN unlock_achievement(w1, <<"Streak", streak>>)
                      ELSE w1)
    ELSE w

(* update_streak() *)
update_streak(w, now) ==
    IF w.self.last_study_date # now
    THEN LET streak == IF w.self.last_study_date # NoDate
                       THEN (IF w.self.last_study_date = now - 1
                             THEN w.self.streak + 1
                             ELSE 1)
                       ELSE 1
             w1 == [w EXCEPT !.self.streak = streak,
                             !.self.last_study_date = now]
         IN save_data(IF streak % 7 = 0
                      THEN unlock_achievement(w1, <<"Streak", streak>>)
                      ELSE w1)
    ELSE w

(***************************************************************************)
(* Quest engine                                                            *)
(***************************************************************************)
(* the achievement each feature flag unlocks *)
HardModeAchievement == <<"Unlocked: Hard Mode!", 0>>
ExamSimulatorAchievement == <<"Unlocked: Exam Simulator!", 0>>
BonusVisualizationsAchievement == <<"Unlocked: Bonus Visualizations!", 0>>
CaseStudiesAchievement == <<"Unlocked: AI Case Studies!", 0>>

(* [q for q in quests if q['id'] != id] *)
WithoutQuest(quests, id) == SelectSeq(quests, LAMBDA q : q.id # id)

(* the thresholds of complete_quest, in the order of the code *)
Features ==
    << [threshold |-> 5, feature |-> "hard_mode",
        achievement |-> HardModeAchievement],
       [threshold |-> 15, feature |-> "exam_simulator",
        achievement |-> ExamSimulatorAchievement],
       [threshold |-> 25, feature |-> "bonus_visualizations",
        achievement |-> BonusVisualizationsAchievement],
       [threshold |-> 40, feature |-> "case_studies",
        achievement |-> CaseStudiesAchievement] >>

(* mutant: a feature is unlocked one completed quest late *)
UnlockFeature_Late(w, completed_count, f) ==
    IF completed_count > f.threshold /\ ~w.self.unlocked_features[f.feature]
    THEN unlock_achievement(
             [w EXCEPT !.self.unlocked_features[f.feature] = TRUE],
             f.achievement)
    ELSE w

(* one threshold of complete_quest: set the flag and unlock its achievement *)
UnlockFeature(w, completed_count, f) ==
    IF completed_count >= f.threshold /\ ~w.self.unlocked_features[f.feature]
    THEN unlock_achievement(
             [w EXCEPT !.self.unlocked_features[f.feature] = TRUE],
             f.achievement)
    ELSE w

(* the four threshold blocks of complete_quest, from the i-th on *)
RECURSIVE UnlockFeatures(_, _, _)
UnlockFeatures(w, completed_count, i) ==
    IF i > Len(Features) THEN w
    ELSE UnlockFeatures(UnlockFeature(w, completed_count, Features[i]),
                        completed_count, i + 1)

(* complete_quest(quest) *)
complete_quest(w, quest) ==
    IF quest \notin w.self.completed_quests
    THEN LET w1 == add_xp([w EXCEPT
                             !.self.completed_quests = @ \cup {quest},
                             !.self.active_quests = WithoutQuest(@, quest.id)],
                          quest.xp_reward)
         IN UnlockFeatures(w1, Cardinality(w1.self.completed_quests), 1)
    ELSE w

(* quest['progress'] = progress, on the dict the lists share *)
SetProgress(quests, id, progress) ==
    [i \in 1..Len(quests) |->
        IF quests[i].id = id THEN [quests[i] EXCEPT !.progress = progress]
        ELSE quests[i]]

(* mutant: a quest with a target topic is skipped unless the topic matches *)
QuestSkipped_Strict(quest, topic) ==
    quest.target_topic # 0 /\ quest.target_topic # topic

(* the `continue` of update_quest_progress; topic = 0 is topic=None *)
QuestSkipped(quest, topic) ==
    topic # 0 /\ quest.target_topic # 0 /\ quest.target_topic # topic

(***************************************************************************)
(* The loop of update_quest_progress runs over the list object that        *)
(* self.active_quests named when the loop began (`quests`), also after     *)
(* complete_quest has bound self.active_quests to a shorter list.          *)
(***************************************************************************)
RECURSIVE QuestLoop(_, _, _, _, _, _)
QuestLoop(w, quests, i, quest_type, amount, topic) ==
    IF i > Len(quests) THEN w
    ELSE LET quest == quests[i]
         IN IF quest.type = quest_type /\ ~QuestSkipped(quest, topic)
            THEN LET progress == Min(quest.target, quest.progress + amount)
                     w1 == [w EXCEPT !.self.active_quests =
                                        SetProgress(@, quest.id, progress)]
                     w2 == IF progress >= quest.target
                           THEN complete_quest(w1, [quest EXCEPT
                                                      !.progress = progress])
                           ELSE w1
                 IN QuestLoop(w2, quests, i + 1, quest_type, amount, topic)
            ELSE QuestLoop(w, quests, i + 1, quest_type, amount, topic)

(* update_quest_progress(quest_type, amount, topic) *)
update_quest_progress(w, quest_type, amount, topic) ==
    save_data(QuestLoop(w, w.self.active_quests, 1, quest_type, amount, topic))

(***************************************************************************)
(* Streak guardrails.  A method that returns a value yields the world with *)
(* the value in the field ret.                                             *)
(***************************************************************************)
Returning(w, value) == [self |-> w.self, file |-> w.file, ret |-> value]

(* mutant: a freeze is handed out without looking at the count *)
use_streak_freeze_Always(w) ==
    Returning(save_data([w EXCEPT !.self.streak_freezes = @ - 1,
                                  !.self.streak_freeze_used_today = TRUE]),
              TRUE)

(* use_streak_freeze() *)
use_streak_freeze(w) ==
    IF w.self.streak_freezes > 0
    THEN Returning(save_data([w EXCEPT
                     !.self.streak_freezes = @ - 1,
                     !.self.streak_freeze_used_today = TRUE]),
                   TRUE)
    ELSE Returning(w, FALSE)

(* earn_streak_freeze() *)
earn_streak_freeze(w) ==
    IF w.self.streak_freezes < MaxFreezes
    THEN save_data([w EXCEPT !.self.streak_freezes = @ + 1])
    ELSE w

(* mutant: only a study action today counts *)
StudiedRecently_TodayOnly(s, now) == s.last_study_date = now

(* last_study_date == today, or last_study_date == yesterday *)
StudiedRecently(s, now) ==
    \/ s.last_study_date = now
    \/ s.last_study_date # NoDate /\ s.last_study_date = now - 1

(* mutant: the freeze is offered whether or not one was used *)
check_streak_with_guardrails_Daily(w, now, response) ==
    IF StudiedRecently(w.self, now)
    THEN Returning(w, TRUE)
    ELSE IF /\ w.self.streak > 0
            /\ w.self.streak_freezes > 0
            /\ response
    THEN Returning(use_streak_freeze(w), TRUE)
    ELSE IF /\ w.self.streak > 0
            /\ w.self.last_study_date # NoDate
            /\ w.self.last_study_date < now - 1
    THEN Returning([w EXCEPT !.self.streak = 0], FALSE)
    ELSE Returning(w, FALSE)

(* check_streak_with_guardrails(); response is the answer to askyesno *)
check_streak_with_guardrails(w, now, response) ==
    IF StudiedRecently(w.self, now)
    THEN Returning(w, TRUE)
    ELSE IF /\ w.self.streak > 0
            /\ w.self.streak_freezes > 0
            /\ ~w.self.streak_freeze_used_today
            /\ response
    THEN Returning(use_streak_freeze(w), TRUE)
    ELSE IF /\ w.self.streak > 0
            /\ w.self.last_study_date # NoDate
            /\ w.self.last_study_date < now - 1
    THEN Returning([w EXCEPT !.self.streak = 0], FALSE)
    ELSE Returning(w, FALSE)

(***************************************************************************)
(* Scoring a session.  A session is the record of what start_quiz and the  *)
(* answer handlers left on the object: quiz_topic (0 is None), is_test,    *)
(* is_review, is_daily_challenge, the number of questions `total`, the     *)
(* number `correct` of them answered right and the seconds since           *)
(* start_time.  Its questions are distinct items; the first `correct` are  *)
(* the ones answered right, each with the confidence 'medium'.  The        *)
(* sessions of the model have a whole score in percent and                 *)
(* (correct / total) * 100 is computed exactly for them.                   *)
(***************************************************************************)
(* self.current_questions: items of the quiz topic, or of all topics *)
SessionQuestion(session, i) ==
    IF session.quiz_topic # 0
    THEN session.quiz_topic + (i - 1) * MaxTopic
    ELSE i

(* self.topic_accuracy[topic_num]['total'] += 1 (and ['correct']) *)
CountAnswer(acc, key, is_correct) ==
    LET a == DictGet(acc, key, [correct |-> 0, total |-> 0])
    IN DictSet(acc, key,
               [correct |-> a.correct + (IF is_correct THEN 1 ELSE 0),
                total |-> a.total + 1])

(* the loop of finish_quiz over the questions *)
RECURSIVE AnswerLoop(_, _, _, _)
AnswerLoop(w, session, i, now) ==
    IF i > session.total THEN w
    ELSE LET q_id == SessionQuestion(session, i)
             is_correct == i <= session.correct
             w1 == update_question_memory(w, q_id, is_correct, "medium", now)
             w2 == [w1 EXCEPT !.self.topic_accuracy =
                       CountAnswer(@, StrKey(ItemTopic(q_id)), is_correct)]
         IN AnswerLoop(w2, session, i + 1, now)

(* score_percent *)
ScorePercent(session) ==
    IF session.total > 0 THEN (session.correct * 100) \div session.total
    ELSE 0

(* mutant: the fastest time is taken from any session *)
PersonalBests_AnyScore(bests, score_percent, time_taken) ==
    [bests EXCEPT
       !.best_accuracy = IF score_percent > @ THEN score_percent ELSE @,
       !.highest_single_quiz = IF score_percent > @ THEN score_percent ELSE @,
       !.fastest_quiz = IF time_taken < @ THEN time_taken ELSE @]

(* finish_quiz: update personal bests *)
PersonalBests(bests, score_percent, time_taken) ==
    [bests EXCEPT
       !.best_accuracy = IF score_percent > @ THEN score_percent ELSE @,
       !.highest_single_quiz = IF score_percent > @ THEN score_percent ELSE @,
       !.fastest_quiz = IF time_taken < @ /\ score_percent >= 70
                        THEN time_taken ELSE @]

(* mutant: a session without topic counts for the first topic *)
RecordTopicScore_Mixed(w, session, score_percent, now) ==
    LET key == IntKey(Max(1, session.quiz_topic))
        name == <<IF session.is_test THEN "test_topic" ELSE "quiz_topic",
                  session.quiz_topic>>
        w1 == [w EXCEPT
                 !.self.scores = DictSet(@, name, score_percent),
                 !.self.progress =
                     DictSet(@, key, Min(100, DictGet(@, key, 0) + 5))]
    IN update_spaced_repetition(w1, key, score_percent, now)

(* finish_quiz: the block under `if self.quiz_topic` *)
RecordTopicScore(w, session, score_percent, now) ==
    IF session.quiz_topic # 0
    THEN LET key == IntKey(session.quiz_topic)
             name == <<IF session.is_test THEN "test_topic" ELSE "quiz_topic",
                       session.quiz_topic>>
             w1 == [w EXCEPT
                      !.self.scores = DictSet(@, name, score_percent),
                      !.self.progress =
                          DictSet(@, key, Min(100, DictGet(@, key, 0) + 5))]
         IN update_spaced_repetition(w1, key, score_percent, now)
    ELSE w

(* unlock_achievement(name) for the names from the i-th on *)
RECURSIVE UnlockAll(_, _, _)
UnlockAll(w, names, i) ==
    IF i > Len(names) THEN w
    ELSE UnlockAll(unlock_achievement(w, names[i]), names, i + 1)

(* finish_quiz: the achievements of a session; unlock_achievement leaves   *)
(* total_questions_answered and streak as they are                         *)
SessionAchievements(s, score_percent) ==
    (IF score_percent = 100 THEN << <<"Perfect Score!", 0>> >>
     ELSE IF score_percent >= 90 THEN << <<"Excellent Performance!", 0>> >>
     ELSE <<>>)
    \o (IF s.total_questions_answered >= 100
        THEN << <<"Century Club: 100 Questions!", 0>> >> ELSE <<>>)
    \o (IF s.streak >= 7 THEN << <<"Streak", 7>> >> ELSE <<>>)

(* finish_quiz: the update_quest_progress calls of a session *)
QuestReports(session, score_percent) ==
    << [quest_type |-> "quiz", amount |-> session.total] >>
    \o (IF session.is_review
        THEN << [quest_type |-> "review", amount |-> 1] >> ELSE <<>>)
    \o (IF score_percent >= 70
        THEN << [quest_type |-> "mastery", amount |-> 1] >> ELSE <<>>)

RECURSIVE ReportQuests(_, _, _)
ReportQuests(w, reports, i) ==
    IF i > Len(reports) THEN w
    ELSE ReportQuests(update_quest_progress(w, reports[i].quest_type,
                                            reports[i].amount, 0),
                      reports, i + 1)

(* finish_quiz() *)
finish_quiz(w, session, now) ==
    LET score_percent == ScorePercent(session)
        time_taken == session.time_taken
        w1 == AnswerLoop(w, session, 1, now)
        w2 == [w1 EXCEPT
                 !.self.total_questions_answered = @ + session.total,
                 !.self.correct_answers = @ + session.correct,
                 !.self.total_time_spent = @ + time_taken,
                 !.self.personal_bests =
                     PersonalBests(@, score_percent, time_taken)]
        w3 == ReportQuests(w2, QuestReports(session, score_percent), 1)
        w4 == IF w3.self.streak > 0 /\ w3.self.streak % 5 = 0
              THEN earn_streak_freeze(w3) ELSE w3
        xp_earned == (score_percent \div 10) + 5
                     + (IF session.is_daily_challenge THEN 10 ELSE 0)
        w5 == add_xp(IF session.is_daily_challenge
                     THEN [w4 EXCEPT !.self.daily_challenge_completed = now]
                     ELSE w4,
                     xp_earned)
        w6 == update_streak(w5, now)
        w7 == RecordTopicScore(w6, session, score_percent, now)
    IN save_data(UnlockAll(w7, SessionAchievements(w7.self, score_percent), 1))

(***************************************************************************)
(* The state machine.  hist is a history variable: it records, for the     *)
(* properties below, what the last operation on an object was; no          *)
(* operation reads it.                                                     *)
(***************************************************************************)
World == [self |-> self, file |-> file]
Becomes(w) == self' = w.self /\ file' = w.file

NoHist ==
    [updates |-> 0,
     answers |-> 0,
     quest_call |-> [quest_type |-> "", amount |-> 0, topic |-> 0],
     guard |-> [day |-> NoDate, streak |-> 0, froze |-> FALSE, ret |-> FALSE],
     froze_day |-> NoDate,
     sessions |-> 0,
     session |-> [quiz_topic |-> 0, is_test |-> FALSE, is_review |-> FALSE,
                  is_daily_challenge |-> FALSE, total |-> 0, correct |-> 0,
                  time_taken |-> 0],
     fast_times |-> {},
     weakest |-> 0,
     difficulty |-> [topic |-> 0, level |-> ""],
     start |-> [from_file |-> TRUE, xp_before |-> 0],
     started |-> 0,
     scored |-> 0,
     called |-> [n |-> 0, amount |-> 0, w |-> [self |-> Fresh, file |-> NoFile]],
     first_review |-> [t \in Topics |-> NoDate]]

(* no quiz was started: start_quiz sets the attributes *)
NoQuiz ==
    [questions |-> 0, current_question_index |-> 0, answers |-> 0,
     expired |-> FALSE, timer_label |-> FALSE, timers |-> 0, page |-> "menu"]

Init ==
    /\ today = 0
    /\ self = Boot(NoFile, 0).self
    /\ file = Boot(NoFile, 0).file
    /\ hist = NoHist
    /\ quiz = NoQuiz
    /\ stack = <<>>

(* A quiz or test on topic t was scored: finish_quiz passes the int topic. *)
UpdateSpacedRepetition(t, score) ==
    /\ hist.updates < MaxUpdates
    /\ Becomes(update_spaced_repetition(World, IntKey(t), score, today))
    /\ hist' = [hist EXCEPT !.updates = @ + 1, !.first_review[t] =
                  IF IntKey(t) \notin DOMAIN self.review_schedule /\ score = 90
                  THEN today ELSE NoDate]
    /\ UNCHANGED <<today, quiz, stack>>

(* Midnight passes. *)
NextDay ==
    /\ today < MaxDay
    /\ today' = today + 1
    /\ UNCHANGED <<self, file, hist, quiz, stack>>

(* The program is closed and started again. *)
Restart ==
    /\ Becomes(Boot(file, today))
    /\ UNCHANGED <<today, hist, quiz, stack>>

(* Midnight passes, within the days on which reviews are scheduled. *)
ReviewDayPasses == today < MaxReviewDay /\ NextDay

NextSR ==
    \/ \E t \in Topics, score \in Scores : UpdateSpacedRepetition(t, score)
    \/ ReviewDayPasses
    \/ Restart

SpecSR == Init /\ [][NextSR]_vars

(***************************************************************************)
(* Properties of the spaced-repetition scheduler (SpecSR)                  *)
(***************************************************************************)

(* C1: after every update_spaced_repetition call the stored mastery of     *)
(* every topic, in memory and in the saved file, lies within [0, 5].       *)
C1_MasteryWithinBounds ==
    /\ \A k \in DOMAIN self.mastery_levels :
          self.mastery_levels[k] \in 0..(5 * Half)
    /\ \A k \in DOMAIN file.data.mastery_levels :
          file.data.mastery_levels[k] \in 0..(5 * Half)

(* C1 witness: updates have driven a topic up to mastery 5 and it is saved. *)
C1_Witness ==
    \E t \in Topics :
        /\ IntKey(t) \in DOMAIN self.mastery_levels
        /\ self.mastery_levels[IntKey(t)] = 5 * Half
        /\ file.data.mastery_levels[StrKey(t)] = 5 * Half
        /\ hist.updates >= 5

(* C2: an update with score >= 0.8 stores min(5, m + 1), with              *)
(* 0.6 <= score < 0.8 stores max(0, m - 0.5), with score < 0.6 stores      *)
(* max(0, m - 1), where m is the mastery the call reads for its topic, and *)
(* then stores next review = today + T[floor(new mastery)],                *)
(* T = [1, 3, 7, 14, 30, 60].                                              *)
C2_Expected(m, score) ==
    IF score >= 80 THEN (IF m + 2 > 10 THEN 10 ELSE m + 2)
    ELSE IF score >= 60 THEN (IF m - 1 < 0 THEN 0 ELSE m - 1)
    ELSE (IF m - 2 < 0 THEN 0 ELSE m - 2)

C2_Offset(m) ==
    CASE m \in {0, 1} -> 1
      [] m \in {2, 3} -> 3
      [] m \in {4, 5} -> 7
      [] m \in {6, 7} -> 14
      [] m \in {8, 9} -> 30
      [] OTHER -> 60

C2_UpdateRule ==
    \A t \in Topics, score \in Scores :
        LET m == DictGet(self.mastery_levels, IntKey(t), 0)
            w == update_spaced_repetition(World, IntKey(t), score, today)
            m1 == w.self.mastery_levels[IntKey(t)]
        IN /\ m1 = C2_Expected(m, score)
           /\ w.self.review_schedule[IntKey(t)] = today + C2_Offset(m1)
           /\ w.file.data.review_schedule[StrKey(t)] = today + C2_Offset(m1)

(* C2 witness: three updates, all with score 0.9, took a topic from 0 to   *)
(* mastery 3 and its review is 14 days away.                               *)
C2_Witness ==
    \E t \in Topics :
        /\ hist.updates = 3
        /\ IntKey(t) \in DOMAIN self.mastery_levels
        /\ self.mastery_levels[IntKey(t)] = 3 * Half
        /\ self.review_schedule[IntKey(t)] = today + 14

(* C3: a topic without schedule entry is due; after update(topic, 0.9) on  *)
(* date D of such a topic, and until the next update of the topic,         *)
(* check_spaced_repetition(topic) is false before D + 3 and true from      *)
(* D + 3 on.                                                               *)
C3_DueFromThirdDay ==
    \A t \in Topics :
        /\ ({IntKey(t), StrKey(t)} \cap DOMAIN self.review_schedule = {}
              => check_spaced_repetition(self, IntKey(t), today))
        /\ (hist.first_review[t] # NoDate
              => (check_spaced_repetition(self, IntKey(t), today)
                    <=> today >= hist.first_review[t] + 3))

(* C4: a restart (load_data of the saved file) with no update in between   *)
(* leaves check_spaced_repetition(topic) as it was and leaves the mastery  *)
(* the next update starts from as it was.                                  *)
C4_RestartKeepsSchedule ==
    [][Restart =>
          \A t \in Topics :
             /\ check_spaced_repetition(self', IntKey(t), today)
                   = check_spaced_repetition(self, IntKey(t), today)
             /\ DictGet(self'.mastery_levels, IntKey(t), 0)
                   = DictGet(self.mastery_levels, IntKey(t), 0)
      ]_vars

(* The mastery of topic t: the entry written last (the int key's, when the *)
(* topic was updated in this run, else the one loaded from the file).      *)
TopicMastery(s, t) ==
    IF IntKey(t) \in DOMAIN s.mastery_levels THEN s.mastery_levels[IntKey(t)]
    ELSE DictGet(s.mastery_levels, StrKey(t), 0)

RECURSIVE CatalogMastery(_, _)
CatalogMastery(s, t) ==
    IF t = 0 THEN 0 ELSE TopicMastery(s, t) + CatalogMastery(s, t - 1)

(* C5: get_exam_readiness() is an integer in [0, 100] equal to the         *)
(* truncation of (sum of the catalog topics' mastery, each topic once)     *)
(* / (number of topics * 5) * 100.                                         *)
C5_ReadinessCountsTopicsOnce ==
    /\ get_exam_readiness(self) \in 0..100
    /\ get_exam_readiness(self)
         = (CatalogMastery(self, NumTopics) * 100) \div (NumTopics * 5 * Half)

(***************************************************************************)
(* Per-item memory and review queue (SpecMemory)                           *)
(***************************************************************************)
(* finish_quiz records the answer given to one item of the session. *)
UpdateQuestionMemory(q_id, is_correct, confidence) ==
    /\ hist.answers < MaxAnswers
    /\ Becomes(update_question_memory(World, q_id, is_correct, confidence,
                                      today))
    /\ hist' = [hist EXCEPT !.answers = @ + 1]
    /\ UNCHANGED <<today, quiz, stack>>

(* The "Add to Review Queue" button of the results page. *)
AddToReview(q_id) ==
    /\ Becomes(add_to_review(World, q_id))
    /\ UNCHANGED <<today, hist, quiz, stack>>

NextMemory ==
    \/ \E q_id \in Items, is_correct \in BOOLEAN, confidence \in Confidences :
          UpdateQuestionMemory(q_id, is_correct, confidence)
    \/ \E q_id \in Items : AddToReview(q_id)
    \/ Restart

SpecMemory == Init /\ [][NextMemory]_vars

(* number of positions of the queue that hold q_id *)
Occurrences(queue, q_id) == Cardinality({i \in 1..Len(queue) : queue[i] = q_id})

(* C6: no item id occurs more than once in review_queue, whatever mix of   *)
(* correct and incorrect answers and explicit additions has been recorded. *)
C6_QueueHasNoDuplicates ==
    \A q_id \in Items :
        /\ Occurrences(self.review_queue, q_id) <= 1
        /\ Occurrences(file.data.review_queue, q_id) <= 1

(* C6 witness: an item answered incorrectly twice is in the queue. *)
C6_Witness ==
    \E q_id \in Items :
        /\ q_id \in DOMAIN self.question_memory
        /\ self.question_memory[q_id].times_wrong >= 2
        /\ Occurrences(self.review_queue, q_id) = 1

(* C7: strength stays within [0, 5]; a correct answer stores               *)
(* min(5, strength + gain), gain 1.0 / 0.7 / 0.4 for high / medium / low   *)
(* confidence, and increments times_correct; an incorrect answer stores    *)
(* max(0, strength - 1), increments times_wrong and leaves the item in the *)
(* review queue, from which a correct answer does not remove it.  The      *)
(* confidence passed to a call is the one the call stores.                 *)
C7_Gain(confidence) ==
    CASE confidence = "high" -> 10
      [] confidence = "medium" -> 7
      [] confidence = "low" -> 4

C7_StrengthRule ==
    /\ [](\A q_id \in DOMAIN self.question_memory :
             self.question_memory[q_id].strength \in 0..50)
    /\ [][\A q_id \in DOMAIN self'.question_memory, is_correct \in BOOLEAN :
            LET confidence == self'.question_memory[q_id].confidence
            IN (/\ hist'.answers = hist.answers + 1
                /\ confidence \in {"low", "medium", "high"}
                /\ UpdateQuestionMemory(q_id, is_correct, confidence)) =>
              LET old == IF q_id \in DOMAIN self.question_memory
                         THEN self.question_memory[q_id]
                         ELSE [strength |-> 0, times_correct |-> 0,
                               times_wrong |-> 0]
                  new == self'.question_memory[q_id]
              IN IF is_correct
                 THEN /\ new.strength =
                           (IF old.strength + C7_Gain(confidence) > 50
                            THEN 50 ELSE old.strength + C7_Gain(confidence))
                      /\ new.times_correct = old.times_correct + 1
                      /\ new.times_wrong = old.times_wrong
                      /\ self'.review_queue = self.review_queue
                 ELSE /\ new.strength =
                           (IF old.strength - 10 < 0
                            THEN 0 ELSE old.strength - 10)
                      /\ new.times_wrong = old.times_wrong + 1
                      /\ new.times_correct = old.times_correct
                      /\ InQueue(self'.review_queue, q_id)
       ]_vars

(* C7 witness: an item answered wrong, wrong, then correctly with high     *)
(* confidence has strength 1.0 and is still queued.                        *)
C7_Witness ==
    \E q_id \in Items :
        /\ q_id \in DOMAIN self.question_memory
        /\ self.question_memory[q_id].times_wrong = 2
        /\ self.question_memory[q_id].times_correct = 1
        /\ self.question_memory[q_id].strength = 10
        /\ self.question_memory[q_id].confidence = "high"
        /\ InQueue(self.review_queue, q_id)

(***************************************************************************)
(* Progression ledger: xp, level, achievements and streak (SpecLedger)     *)
(***************************************************************************)
(* the fixed achievement names finish_quiz unlocks *)
AchievementNames == {<<"Perfect Score!", 0>>, <<"Excellent Performance!", 0>>}

(* A visualisation, a study page, a quest or a session awards xp. *)
AddXp(amount) ==
    /\ self.xp < MaxXp
    /\ Becomes(add_xp(World, amount))
    /\ UNCHANGED <<today, hist, quiz, stack>>

UnlockAchievement(achievement_name) ==
    /\ self.xp < MaxXp
    /\ Becomes(unlock_achievement(World, achievement_name))
    /\ UNCHANGED <<today, hist, quiz, stack>>

(* A study page was opened or a session was scored. *)
UpdateStreak ==
    /\ Becomes(update_streak(World, today))
    /\ UNCHANGED <<today, hist, quiz, stack>>

NextLedger ==
    \/ \E amount \in XpAmounts : AddXp(amount)
    \/ \E achievement_name \in AchievementNames :
          UnlockAchievement(achievement_name)
    \/ UpdateStreak
    \/ NextDay
    \/ Restart

SpecLedger == Init /\ [][NextLedger]_vars

(* C8: with last_study_date = D, update_streak on date D changes neither   *)
(* streak nor last_study_date; on D + 1 it adds exactly 1 to streak; on    *)
(* D + 2 or later it sets streak to 1; the first update_streak ever sets   *)
(* streak to 1; whenever it changes anything last_study_date becomes the   *)
(* current date.                                                           *)
C8_StreakContinuity ==
    [][UpdateStreak =>
          LET D == self.last_study_date
          IN /\ (D = today =>
                   /\ self'.streak = self.streak
                   /\ self'.last_study_date = D)
             /\ (D # NoDate /\ D = today - 1 =>
                   /\ self'.streak = self.streak + 1
                   /\ self'.last_study_date = today)
             /\ (D # NoDate /\ D <= today - 2 =>
                   /\ self'.streak = 1
                   /\ self'.last_study_date = today)
             /\ (D = NoDate =>
                   /\ self'.streak = 1
                   /\ self'.last_study_date = today)
      ]_vars

(* C8 witness: a streak of at least 2 was built on consecutive days and a  *)
(* study action after a skipped day has set it back to 1.                  *)
C8_Witness ==
    /\ self.personal_bests.longest_streak >= 2
    /\ self.streak = 1
    /\ self.last_study_date = today

(* C9: add_xp(x) followed by add_xp(y) ends in the same (xp, level) as     *)
(* add_xp(x + y), for all non-negative x and y and from every reachable    *)
(* state, the level-up bonus included.                                     *)
C9_LevelingLaw ==
    \A x \in XpAmounts, y \in XpAmounts :
        LET split == add_xp(add_xp(World, x), y).self
            single == add_xp(World, x + y).self
        IN split.xp = single.xp /\ split.level = single.level

(* C10: whenever an operation has returned, level = 1 + floor(xp / 100),   *)
(* xp >= 0 and level >= 1, in memory and in the saved file, and no         *)
(* operation decreases xp or level.                                        *)
C10_LevelFromXp ==
    /\ [](/\ self.level = 1 + (self.xp \div 100)
          /\ self.xp >= 0
          /\ self.level >= 1
          /\ file.data.level = 1 + (file.data.xp \div 100))
    /\ [][self'.xp >= self.xp /\ self'.level >= self.level]_vars

(* C10 witness: xp awards and achievement bonuses have carried the level   *)
(* to 3 and the level-3 achievement is unlocked.                           *)
C10_Witness ==
    /\ self.level >= 3
    /\ <<"Level", 3>> \in self.achievements
    /\ Cardinality(self.achievements) >= 2

(***************************************************************************)
(* Quest engine (SpecQuest)                                                *)
(***************************************************************************)
(* A study page or a scored session reports progress. *)
UpdateQuestProgress(quest_type, amount, topic) ==
    /\ Becomes(update_quest_progress(World, quest_type, amount, topic))
    /\ hist' = [hist EXCEPT !.quest_call =
                  [quest_type |-> quest_type, amount |-> amount,
                   topic |-> topic]]
    /\ UNCHANGED <<today, quiz, stack>>

(* Midnight passes, within the days on which quests are followed. *)
QuestDayPasses == today < MaxQuestDay /\ NextDay

NextQuest ==
    \/ \E call \in QuestCalls :
          UpdateQuestProgress(call.quest_type, call.amount, call.topic)
    \/ QuestDayPasses
    \/ Restart

SpecQuest == Init /\ [][NextQuest]_vars

QuestIds(quests) == {q.id : q \in quests}
ActiveIds(s) == {s.active_quests[i].id : i \in 1..Len(s.active_quests)}

RECURSIVE SumRewards(_)
SumRewards(quests) ==
    IF quests = {} THEN 0
    ELSE LET q == CHOOSE x \in quests : TRUE
         IN q.xp_reward + SumRewards(quests \ {q})

(* C11: once a quest has reached its target and been completed, it is no   *)
(* longer in active_quests, it is never appended to completed_quests       *)
(* again, and further update_quest_progress calls never award its          *)
(* xp_reward again: the xp an operation adds is the rewards of the quests  *)
(* it completes for the first time plus the bonus of the achievements it   *)
(* unlocks.                                                                *)
C11_CompletedOnce ==
    /\ [](/\ ActiveIds(self) \cap QuestIds(self.completed_quests) = {}
          /\ \A q1 \in self.completed_quests, q2 \in self.completed_quests :
                q1.id = q2.id => q1 = q2)
    /\ [][LET done == self'.completed_quests \ self.completed_quests
          IN /\ QuestIds(done) \cap QuestIds(self.completed_quests) = {}
             /\ self'.xp - self.xp =
                   SumRewards(done)
                   + AchievementBonus
                     * Cardinality(self'.achievements \ self.achievements)
      ]_vars

(* C12: check_and_generate_quests changes nothing when a batch of quests   *)
(* generated today exists, its quests still active or already completed;   *)
(* otherwise it replaces active_quests by exactly the quiz (target 5),     *)
(* study-the-weakest-topic (target 1) and review (target 1) quests, and a  *)
(* fourth weekly mastery quest (target 3, reward 100) exactly on a Monday, *)
(* all with progress 0 and generated today.                                *)
C12_GeneratedOncePerDay ==
    LET w == check_and_generate_quests(World, today)
        quests == w.self.active_quests
        batch_exists ==
          \/ \E i \in 1..Len(self.active_quests) :
                self.active_quests[i].generated_date = today
          \/ \E q \in self.completed_quests : q.generated_date = today
    IN IF batch_exists THEN w = World
       ELSE /\ Len(quests) = (IF Weekday(today) = 0 THEN 4 ELSE 3)
            /\ quests[1].type = "quiz" /\ quests[1].target = 5
            /\ quests[2].type = "study" /\ quests[2].target = 1
            /\ quests[2].target_topic = get_weakest_topic(self).topic
            /\ quests[3].type = "review" /\ quests[3].target = 1
            /\ Weekday(today) = 0 =>
                  /\ quests[4].type = "mastery" /\ quests[4].target = 3
                  /\ quests[4].xp_reward = 100 /\ quests[4].is_weekly
            /\ \A i \in 1..Len(quests) :
                  quests[i].progress = 0 /\ quests[i].generated_date = today

(***************************************************************************)
(* Feature unlocks (SpecUnlock).  The last threshold needs 40 completed    *)
(* quests, at most 4 a day, so the learner is followed over MaxPlayedDays  *)
(* days; to keep the histories few, the next day begins (with a start of   *)
(* the program) only once every active quest has been completed.           *)
(***************************************************************************)
StartNextDay ==
    /\ today < MaxPlayedDays
    /\ self.active_quests = <<>>
    /\ today' = today + 1
    /\ Becomes(Boot(file, today + 1))
    /\ UNCHANGED <<hist, quiz, stack>>

NextUnlock ==
    \/ \E call \in QuestCalls :
          UpdateQuestProgress(call.quest_type, call.amount, call.topic)
    \/ StartNextDay
    \/ Restart

SpecUnlock == Init /\ [][NextUnlock]_vars

(* C13: no operation sets a flag of unlocked_features from true to false;  *)
(* hard_mode, exam_simulator, bonus_visualizations and case_studies are    *)
(* true exactly when the number of completed quests has reached 5, 15, 25  *)
(* and 40; and the achievement of a flag is unlocked in the step that sets *)
(* the flag and in no other.                                               *)
C13_UnlocksFollowCount ==
    /\ [](\A i \in 1..Len(Features) :
            LET f == Features[i]
            IN /\ self.unlocked_features[f.feature] =
                     (Cardinality(self.completed_quests) >= f.threshold)
               /\ self.unlocked_features[f.feature] =
                     (f.achievement \in self.achievements)
               /\ file.data.unlocked_features[f.feature] =
                     self.unlocked_features[f.feature])
    /\ [][\A i \in 1..Len(Features) :
            LET f == Features[i]
            IN /\ self.unlocked_features[f.feature]
                     => self'.unlocked_features[f.feature]
               /\ (/\ ~self.unlocked_features[f.feature]
                   /\ self'.unlocked_features[f.feature]) =
                     (f.achievement \in self'.achievements \ self.achievements)
      ]_vars

(* C13 witness: the fortieth quest has been completed and all four         *)
(* features are unlocked with their achievements.                          *)
C13_Witness ==
    /\ Cardinality(self.completed_quests) = 40
    /\ \A i \in 1..Len(Features) :
          /\ self.unlocked_features[Features[i].feature]
          /\ Features[i].achievement \in self.achievements

(***************************************************************************)
(* Progress rule of update_quest_progress (SpecQuest)                      *)
(***************************************************************************)
ActiveQuests(s) == {s.active_quests[i] : i \in 1..Len(s.active_quests)}

(* The call has set the progress of quest q to min(target, progress +      *)
(* amount): q is found with that progress among the active quests or,      *)
(* once the target is reached, among the completed ones.                   *)
C14_Advanced(s, q, amount) ==
    [q EXCEPT !.progress = Min(q.target, q.progress + amount)]
       \in ActiveQuests(s) \cup s.completed_quests

C14_InRange(q) == 0 <= q.progress /\ q.progress <= q.target

(* C14 as stated: update_quest_progress(type, amount, topic) advances      *)
(* every active quest of that type whose target_topic, when it has one,    *)
(* equals topic, and leaves every other active quest unchanged, a quest    *)
(* with a target_topic and no topic argument included; and every quest has *)
(* 0 <= progress <= target.                                                *)
C14_TopicMustMatch ==
    /\ \A q \in ActiveQuests(self) \cup self.completed_quests : C14_InRange(q)
    /\ \A quest_type \in QuestTypes, amount \in QuestAmounts,
          topic \in QuestTopics :
          LET s == update_quest_progress(World, quest_type, amount, topic).self
          IN \A q \in ActiveQuests(self) :
                IF /\ q.type = quest_type
                   /\ (q.target_topic # 0 => q.target_topic = topic)
                THEN C14_Advanced(s, q, amount)
                ELSE q \in ActiveQuests(s)

(* C14, amended: update_quest_progress(type, amount, topic) advances every *)
(* active quest of that type except a quest with a target_topic when a     *)
(* topic argument is given and differs from it; without a topic argument   *)
(* every quest of the type is advanced, its target_topic notwithstanding.  *)
(* Every other active quest is left unchanged, and every quest has         *)
(* 0 <= progress <= target.                                                *)
C14_ProgressRule ==
    /\ \A q \in ActiveQuests(self) \cup self.completed_quests : C14_InRange(q)
    /\ \A quest_type \in QuestTypes, amount \in QuestAmounts,
          topic \in QuestTopics :
          LET s == update_quest_progress(World, quest_type, amount, topic).self
          IN \A q \in ActiveQuests(self) :
                IF /\ q.type = quest_type
                   /\ (topic # 0 /\ q.target_topic # 0 =>
                         q.target_topic = topic)
                THEN C14_Advanced(s, q, amount)
                ELSE q \in ActiveQuests(s)

(* C14 witness: update_quest_progress('study', 1) without a topic was the  *)
(* last call and the study quest of topic 1 stands completed, while the    *)
(* quiz quest is active with part of its target done.                      *)
C14_Witness ==
    /\ hist.quest_call = [quest_type |-> "study", amount |-> 1, topic |-> 0]
    /\ \E q \in self.completed_quests :
          q.type = "study" /\ q.target_topic = 1 /\ q.progress = 1
    /\ \E q \in ActiveQuests(self) :
          q.type = "quiz" /\ 0 < q.progress /\ q.progress < q.target

(***************************************************************************)
(* Streak guardrails and freezes (SpecStreak).  hist.guard records the     *)
(* last check_streak_with_guardrails call: its day, the streak it found,   *)
(* whether it consumed a freeze and what it returned.                      *)
(***************************************************************************)
(* the world after check_streak_with_guardrails today *)
GuardrailCheck(response) ==
    check_streak_with_guardrails(World, today, response)

CheckStreakWithGuardrails(response) ==
    /\ Becomes(GuardrailCheck(response))
    /\ hist' = [hist EXCEPT
                  !.guard =
                     [day |-> today, streak |-> self.streak,
                      froze |-> GuardrailCheck(response).self.streak_freezes
                                  < self.streak_freezes,
                      ret |-> GuardrailCheck(response).ret],
                  !.froze_day =
                     IF GuardrailCheck(response).self.streak_freezes
                          < self.streak_freezes
                     THEN today ELSE @]
    /\ UNCHANGED <<today, quiz, stack>>

UseStreakFreeze ==
    /\ Becomes(use_streak_freeze(World))
    /\ UNCHANGED <<today, hist, quiz, stack>>

(* finish_quiz earns a freeze when the streak is a multiple of five. *)
EarnStreakFreeze ==
    /\ self.streak > 0 /\ self.streak % 5 = 0
    /\ Becomes(earn_streak_freeze(World))
    /\ UNCHANGED <<today, hist, quiz, stack>>

(* Midnight passes, within the days on which the streak is followed. *)
StreakDayPasses == today < MaxStreakDay /\ NextDay

NextStreak ==
    \/ \E response \in BOOLEAN : CheckStreakWithGuardrails(response)
    \/ UseStreakFreeze
    \/ EarnStreakFreeze
    \/ UpdateStreak
    \/ StreakDayPasses
    \/ Restart

SpecStreak == Init /\ [][NextStreak]_vars

(* C15: when last_study_date is today or yesterday,                        *)
(* check_streak_with_guardrails returns true and changes no state: streak, *)
(* streak_freezes and streak_freeze_used_today are unchanged, in memory    *)
(* and in the file.                                                        *)
C15_NoCheckOnStudiedDays ==
    [][\A response \in BOOLEAN :
          /\ CheckStreakWithGuardrails(response)
          /\ self.last_study_date # NoDate
          /\ self.last_study_date \in {today, today - 1}
          => /\ hist'.guard.ret
             /\ self' = self
             /\ file' = file
      ]_vars

(* C15 witness: the check ran the day after the last study day, found a    *)
(* streak of 3 with no freeze left, returned true and left both as they    *)
(* were.                                                                   *)
C15_Witness ==
    /\ hist.guard.day = today /\ hist.guard.ret /\ ~hist.guard.froze
    /\ hist.guard.streak = 3
    /\ self.last_study_date = today - 1
    /\ self.streak = 3
    /\ self.streak_freezes = 0

(* C16: when last_study_date is before yesterday, streak > 0 and no freeze *)
(* is used (none left, one already used, or the offer declined),           *)
(* check_streak_with_guardrails sets streak to 0 and returns false, and    *)
(* afterwards personal_bests.longest_streak is at least the streak that    *)
(* was lost.                                                               *)
C16_LostStreakIsRemembered ==
    [][\A response \in BOOLEAN :
          /\ CheckStreakWithGuardrails(response)
          /\ self.last_study_date # NoDate
          /\ self.last_study_date < today - 1
          /\ self.streak > 0
          /\ \/ self.streak_freezes = 0
             \/ self.streak_freeze_used_today
             \/ ~response
          => /\ self'.streak = 0
             /\ ~hist'.guard.ret
             /\ self'.streak_freezes = self.streak_freezes
             /\ self'.personal_bests.longest_streak >= self.streak
      ]_vars

(* C16 witness: with no freeze left the check has just reset a streak of 3 *)
(* on a day after a missed day and returned false; the longest streak      *)
(* keeps the 3.                                                            *)
C16_Witness ==
    /\ hist.guard.day = today /\ ~hist.guard.ret /\ ~hist.guard.froze
    /\ hist.guard.streak = 3
    /\ self.last_study_date < today - 1
    /\ self.streak = 0
    /\ self.streak_freezes = 0
    /\ self.personal_bests.longest_streak = 3

(* C17, first half: when a day was missed, streak = s > 0, a freeze is     *)
(* left, none was used and the learner accepts, the check takes exactly    *)
(* one freeze, sets streak_freeze_used_today, returns true and leaves the  *)
(* streak at s.                                                            *)
C17_FreezeIsConsumed ==
    [][\A response \in BOOLEAN :
          /\ CheckStreakWithGuardrails(response)
          /\ self.last_study_date # NoDate
          /\ self.last_study_date < today - 1
          /\ self.streak > 0
          /\ self.streak_freezes > 0
          /\ ~self.streak_freeze_used_today
          /\ response
          => /\ self'.streak_freezes = self.streak_freezes - 1
             /\ self'.streak_freeze_used_today
             /\ hist'.guard.ret
             /\ self'.streak = self.streak
      ]_vars

(* C17: consuming a freeze protects the streak: the check behaves as in    *)
(* the first half, and the first update_streak that follows on the same    *)
(* day does not lose the streak that the freeze kept.                      *)
C17_FreezeProtectsStreak ==
    /\ C17_FreezeIsConsumed
    /\ [][/\ UpdateStreak
           /\ hist.guard.froze
           /\ hist.guard.day = today
           /\ self.last_study_date # today
           /\ self.streak = hist.guard.streak
           => self'.streak >= self.streak
      ]_vars

(* C18: in every reachable state 0 <= streak_freezes <= 5, in memory and   *)
(* in the file; use_streak_freeze takes one freeze and returns true when   *)
(* one is left, and returns false without changing anything otherwise;     *)
(* earn_streak_freeze adds one freeze below 5 and nothing at 5.            *)
C18_FreezesWithinBounds ==
    /\ [](/\ 0 <= self.streak_freezes /\ self.streak_freezes <= 5
          /\ 0 <= file.data.streak_freezes /\ file.data.streak_freezes <= 5
          /\ use_streak_freeze(World).ret = (self.streak_freezes > 0))
    /\ [][UseStreakFreeze =>
            IF self.streak_freezes > 0
            THEN self'.streak_freezes = self.streak_freezes - 1
            ELSE self' = self /\ file' = file]_vars
    /\ [][EarnStreakFreeze =>
            IF self.streak_freezes < 5
            THEN self'.streak_freezes = self.streak_freezes + 1
            ELSE self' = self /\ file' = file]_vars

(* C18 witness: a freeze was used, and freezes earned on a fifth streak    *)
(* day have filled the stock to 5.                                         *)
C18_Witness ==
    /\ self.streak_freezes = 5
    /\ self.streak_freeze_used_today
    /\ self.streak = 5

(* C30: streak_freeze_used_today is never set back to false by any         *)
(* operation, a day change and a restart from the saved file included:     *)
(* once a check has consumed a freeze the flag is true in every later      *)
(* state, and while it is true check_streak_with_guardrails neither offers *)
(* a freeze (the learner's answer makes no difference) nor consumes one,   *)
(* whatever the number of freezes held.                                    *)
C30_FlagStays ==
    [][self.streak_freeze_used_today => self'.streak_freeze_used_today]_vars

C30_NoOffer ==
    self.streak_freeze_used_today =>
        /\ GuardrailCheck(TRUE) = GuardrailCheck(FALSE)
        /\ GuardrailCheck(TRUE).self.streak_freezes = self.streak_freezes

C30_OneFreezeEver ==
    /\ C30_FlagStays
    /\ [](hist.froze_day # NoDate => self.streak_freeze_used_today)
    /\ []C30_NoOffer

(* C30 witness: a freeze was consumed on an earlier day; today's check     *)
(* found a streak at risk and freezes in stock, took none and returned     *)
(* false.                                                                  *)
C30_Witness ==
    /\ hist.froze_day # NoDate /\ hist.froze_day < today
    /\ hist.guard.day = today
    /\ hist.guard.streak > 0
    /\ ~hist.guard.froze /\ ~hist.guard.ret
    /\ self.streak_freezes > 0
    /\ self.streak_freeze_used_today

(***************************************************************************)
(* Scored sessions (SpecSession).  hist.session is the last session        *)
(* scored, hist.sessions their number and hist.fast_times the elapsed      *)
(* times of the sessions that scored 70 percent or more.                   *)
(***************************************************************************)
(* what the call sites of start_quiz pass: a topic quiz, a review session, *)
(* the daily challenge                                                     *)
SessionKinds ==
    {[quiz_topic |-> t, is_test |-> FALSE, is_review |-> FALSE,
      is_daily_challenge |-> FALSE] : t \in Topics}
    \cup {[quiz_topic |-> 0, is_test |-> FALSE, is_review |-> TRUE,
           is_daily_challenge |-> FALSE],
          [quiz_topic |-> 0, is_test |-> FALSE, is_review |-> FALSE,
           is_daily_challenge |-> TRUE]}

Sessions ==
    {[quiz_topic |-> k.quiz_topic, is_test |-> k.is_test,
      is_review |-> k.is_review, is_daily_challenge |-> k.is_daily_challenge,
      total |-> r[1], correct |-> r[2], time_taken |-> t] :
        k \in SessionKinds, r \in SessionResults, t \in SessionTimes}

(* finish_quiz runs on the session that was played *)
FinishedQuiz(session) ==
    /\ Becomes(finish_quiz(World, session, today))
    /\ hist' = [hist EXCEPT
                  !.sessions = @ + 1,
                  !.session = session,
                  !.fast_times = IF ScorePercent(session) >= 70
                                 THEN @ \cup {session.time_taken} ELSE @]
    /\ UNCHANGED <<today, quiz, stack>>

(* The last question was answered or the timer ran out. *)
FinishQuiz(session) == hist.sessions < MaxSessions /\ FinishedQuiz(session)

NextSession ==
    \/ \E session \in Sessions : FinishQuiz(session)
    \/ Restart

SpecSession == Init /\ [][NextSession]_vars

(* C19: after a session with score p and elapsed time t, best_accuracy and *)
(* highest_single_quiz are the maximum of their old value and p, and       *)
(* fastest_quiz is the minimum of its old value and t if p >= 70 and       *)
(* unchanged if p < 70; no step decreases best_accuracy or                 *)
(* highest_single_quiz or increases fastest_quiz; and fastest_quiz, once   *)
(* set, is the time of a session that scored at least 70 percent.          *)
C19_PersonalBests ==
    /\ [][hist'.sessions = hist.sessions + 1 =>
            LET p == ScorePercent(hist'.session)
                t == hist'.session.time_taken
                old == self.personal_bests
                new == self'.personal_bests
            IN /\ new.best_accuracy = Max(old.best_accuracy, p)
               /\ new.highest_single_quiz = Max(old.highest_single_quiz, p)
               /\ new.fastest_quiz =
                     (IF p >= 70 THEN Min(old.fastest_quiz, t)
                      ELSE old.fastest_quiz)
      ]_vars
    /\ [][/\ self'.personal_bests.best_accuracy
               >= self.personal_bests.best_accuracy
          /\ self'.personal_bests.highest_single_quiz
               >= self.personal_bests.highest_single_quiz
          /\ self'.personal_bests.fastest_quiz
               <= self.personal_bests.fastest_quiz
      ]_vars
    /\ [](\/ self.personal_bests.fastest_quiz = Infinity
          \/ self.personal_bests.fastest_quiz \in hist.fast_times)

(* C19 witness: a session of 70 percent in 60 seconds was followed by a    *)
(* faster session of 60 percent: the best score stays 70 and the fastest   *)
(* time stays 60.                                                          *)
C19_Witness ==
    /\ hist.sessions = 2
    /\ ScorePercent(hist.session) = 60
    /\ hist.session.time_taken = 40
    /\ self.personal_bests.best_accuracy = 70
    /\ self.personal_bests.highest_single_quiz = 70
    /\ self.personal_bests.fastest_quiz = 60

(***************************************************************************)
(* Weakest topic (SpecWeakest).  get_weakest_topic reads topic_accuracy    *)
(* only; the specification starts it on every accuracy table over the      *)
(* topics 1..MaxWeakTopic with up to MaxAttempts answers each.  A topic    *)
(* without answers has no key.  hist.weakest is the topic returned.        *)
(***************************************************************************)
AccuracyRecords ==
    {a \in [correct : 0..MaxAttempts, total : 1..MaxAttempts] :
        a.correct <= a.total}

AccuracyTables ==
    UNION {[{StrKey(t) : t \in tried} -> AccuracyRecords] :
              tried \in SUBSET (1..MaxWeakTopic)}

InitWeakest ==
    /\ today = 0
    /\ \E acc \in AccuracyTables :
          LET w == save_data([Boot(NoFile, 0) EXCEPT
                                !.self.topic_accuracy = acc])
          IN self = w.self /\ file = w.file
    /\ hist = NoHist
    /\ quiz = NoQuiz
    /\ stack = <<>>

(* The quest generator or the weak area drill asks for the weakest topic. *)
GetWeakestTopic ==
    /\ hist.weakest = 0
    /\ hist' = [hist EXCEPT !.weakest = get_weakest_topic(self).topic]
    /\ UNCHANGED <<self, file, today, quiz, stack>>

NextWeakest == GetWeakestTopic

SpecWeakest == InitWeakest /\ [][NextWeakest]_vars

Attempted(s) ==
    {t \in 1..NumTopics : StrKey(t) \in DOMAIN s.topic_accuracy
                            /\ s.topic_accuracy[StrKey(t)].total > 0}

(* correct / total of topic t is at most that of topic u *)
C20_NotStronger(s, t, u) ==
    s.topic_accuracy[StrKey(t)].correct * s.topic_accuracy[StrKey(u)].total
      <= s.topic_accuracy[StrKey(u)].correct * s.topic_accuracy[StrKey(t)].total

(* C20: whenever a topic has been attempted, get_weakest_topic returns an  *)
(* attempted topic whose correct/total ratio is the lowest among the       *)
(* attempted topics; it returns an untried topic, the first of the         *)
(* catalog, only when no topic has any attempt.                            *)
C20_WeakestIsAttempted ==
    hist.weakest # 0 =>
        IF Attempted(self) # {}
        THEN /\ hist.weakest \in Attempted(self)
             /\ \A u \in Attempted(self) :
                   C20_NotStronger(self, hist.weakest, u)
        ELSE hist.weakest = 1

(***************************************************************************)
(* Adaptive difficulty (SpecDifficulty).  get_adaptive_difficulty reads    *)
(* topic_accuracy only; the specification starts it on every accuracy      *)
(* table over the topics 1..MaxDiffTopic with up to MaxDiffTotal answers   *)
(* each, and asks for these topics and for one without a record.           *)
(* hist.difficulty is the last call: its topic and the level returned.     *)
(***************************************************************************)
DifficultyRecords ==
    {a \in [correct : 0..MaxDiffTotal, total : 1..MaxDiffTotal] :
        a.correct <= a.total}

DifficultyTables ==
    UNION {[{StrKey(t) : t \in tried} -> DifficultyRecords] :
              tried \in SUBSET (1..MaxDiffTopic)}

InitDifficulty ==
    /\ today = 0
    /\ \E acc \in DifficultyTables :
          LET w == save_data([Boot(NoFile, 0) EXCEPT
                                !.self.topic_accuracy = acc])
          IN self = w.self /\ file = w.file
    /\ hist = NoHist
    /\ quiz = NoQuiz
    /\ stack = <<>>

(* The learning-path view asks for the difficulty of a topic. *)
GetAdaptiveDifficulty(topic_num) ==
    /\ hist' = [hist EXCEPT !.difficulty =
                  [topic |-> topic_num,
                   level |-> get_adaptive_difficulty(self, topic_num)]]
    /\ UNCHANGED <<self, file, today, quiz, stack>>

NextDifficulty ==
    \E topic_num \in 1..(MaxDiffTopic + 1) : GetAdaptiveDifficulty(topic_num)

SpecDifficulty == InitDifficulty /\ [][NextDifficulty]_vars

(* the answers counted for topic t, none for a topic without record *)
C21_Answers(t) ==
    IF StrKey(t) \in DOMAIN self.topic_accuracy
    THEN self.topic_accuracy[StrKey(t)]
    ELSE [correct |-> 0, total |-> 0]

(* C21: get_adaptive_difficulty(topic) returns 'normal' when the topic has *)
(* fewer than 5 attempts (unknown topics included), otherwise 'easy' when  *)
(* correct/total < 50%, 'hard' when correct/total > 80% and 'normal'       *)
(* otherwise, 50% and 80% included; the call changes no state.             *)
C21_DifficultyPolicy ==
    /\ [](hist.difficulty.topic # 0 =>
            LET a == C21_Answers(hist.difficulty.topic)
            IN hist.difficulty.level =
                 (IF a.total < 5 THEN "normal"
                  ELSE IF 2 * a.correct < a.total THEN "easy"
                  ELSE IF 5 * a.correct > 4 * a.total THEN "hard"
                  ELSE "normal"))
    /\ [][self' = self /\ file' = file]_vars

(* C21 witness: a topic answered exactly half right, on five or more       *)
(* answers, was rated 'normal'.                                            *)
C21_Witness ==
    /\ hist.difficulty.topic # 0
    /\ C21_Answers(hist.difficulty.topic).total >= 5
    /\ 2 * C21_Answers(hist.difficulty.topic).correct
         = C21_Answers(hist.difficulty.topic).total
    /\ hist.difficulty.level = "normal"

(***************************************************************************)
(* Start-up (SpecLoad).  Sessions are scored, the file is deleted or       *)
(* damaged behind the program's back, and the program is started.          *)
(* hist.start is the last start: whether it read the file, and the xp the  *)
(* object held before.                                                     *)
(***************************************************************************)
(* student_progress.json is deleted *)
FileLost ==
    /\ file.exists
    /\ file' = NoFile
    /\ UNCHANGED <<self, today, hist, quiz, stack>>

(* student_progress.json is cut short or overwritten: json.load raises *)
FileDamaged ==
    /\ file.exists /\ file.parses
    /\ file' = [file EXCEPT !.parses = FALSE]
    /\ UNCHANGED <<self, today, hist, quiz, stack>>

(* __init__ runs: the defaults, then load_data *)
StartProgram ==
    /\ Becomes(Boot(file, today))
    /\ hist' = [hist EXCEPT !.start =
                  [from_file |-> file.exists /\ file.parses,
                   xp_before |-> self.xp]]
    /\ UNCHANGED <<today, quiz, stack>>

ScoreSession(session) == hist.sessions < MaxLoadSessions /\ FinishQuiz(session)

NextLoad ==
    \/ \E session \in Sessions : ScoreSession(session)
    \/ FileLost
    \/ FileDamaged
    \/ StartProgram

SpecLoad == Init /\ [][NextLoad]_vars

(* the documented defaults of the entities *)
C22_Defaults(s) ==
    /\ s.xp = 0 /\ s.level = 1 /\ s.streak = 0
    /\ s.last_study_date = NoDate
    /\ s.streak_freezes = 2
    /\ ~s.streak_freeze_used_today
    /\ s.question_memory = EmptyDict
    /\ s.review_queue = <<>>
    /\ s.topic_accuracy = EmptyDict
    /\ s.mastery_levels = EmptyDict
    /\ s.review_schedule = EmptyDict
    /\ s.completed_quests = {}
    /\ \A f \in DOMAIN s.unlocked_features : ~s.unlocked_features[f]

(* C22: when student_progress.json is missing or json.load rejects it, a   *)
(* start of the program leaves every entity at its documented default:     *)
(* xp 0, level 1, streak 0, no last study date, 2 freezes, flag unset,     *)
(* empty memory, queue, accuracy, mastery and schedule, no completed       *)
(* quests, all features locked.                                            *)
C22_FirstRunDefaults ==
    [][(~(file.exists /\ file.parses) /\ StartProgram)
          => C22_Defaults(self')]_vars

(* C22 witness: a learner with xp started the program on a missing or      *)
(* damaged file and is back at the defaults.                               *)
C22_Witness ==
    /\ ~hist.start.from_file
    /\ hist.start.xp_before > 0
    /\ hist.sessions = MaxLoadSessions
    /\ C22_Defaults(self)

(***************************************************************************)
(* Confidence values (SpecMemory)                                          *)
(***************************************************************************)
(* C23: a confidence value that is none of 'low', 'medium', 'high' is      *)
(* treated as 'medium': in every state, update_question_memory with such   *)
(* a value leaves what it leaves with 'medium' (stored confidence          *)
(* 'medium', a correct answer gains 0.7).                                  *)
C23_InvalidIsMedium ==
    \A q_id \in Items, is_correct \in BOOLEAN :
        LET w == update_question_memory(World, q_id, is_correct, "unsure",
                                        today)
        IN /\ w.self.question_memory[q_id].confidence = "medium"
           /\ w = update_question_memory(World, q_id, is_correct, "medium",
                                         today)

(***************************************************************************)
(* Sessions and the mastery of other topics (SpecFrame).  The learner has  *)
(* mastery and a review date for some of the topics 1..MaxFrameTopic from  *)
(* quizzes of day 0; then sessions of every kind are scored.               *)
(***************************************************************************)
(* mastery (in half points) an earlier quiz left: 1 and 5 *)
FrameMastery == {2, 10}

FrameTables ==
    UNION {[{IntKey(t) : t \in studied} -> FrameMastery] :
              studied \in SUBSET (1..MaxFrameTopic)}

InitFrame ==
    /\ today = 0
    /\ \E mastery \in FrameTables :
          LET w == save_data([Boot(NoFile, 0) EXCEPT
                    !.self.mastery_levels = mastery,
                    !.self.review_schedule =
                        [k \in DOMAIN mastery |->
                            days_until_review(mastery[k])]])
          IN self = w.self /\ file = w.file
    /\ hist = NoHist
    /\ quiz = NoQuiz
    /\ stack = <<>>

(* what the call sites of start_quiz pass: topic quiz, topic test, mixed   *)
(* quiz (interleaved, quiz game, placement), review, daily challenge       *)
FrameKinds ==
    {[quiz_topic |-> t, is_test |-> is_test, is_review |-> FALSE,
      is_daily_challenge |-> FALSE] : t \in Topics, is_test \in BOOLEAN}
    \cup {[quiz_topic |-> 0, is_test |-> FALSE, is_review |-> is_review,
           is_daily_challenge |-> FALSE] : is_review \in BOOLEAN}
    \cup {[quiz_topic |-> 0, is_test |-> FALSE, is_review |-> FALSE,
           is_daily_challenge |-> TRUE]}

FrameSessions ==
    {[quiz_topic |-> k.quiz_topic, is_test |-> k.is_test,
      is_review |-> k.is_review, is_daily_challenge |-> k.is_daily_challenge,
      total |-> r[1], correct |-> r[2], time_taken |-> 60] :
        k \in FrameKinds, r \in SessionResults}

FrameSession(session) ==
    hist.sessions < MaxFrameSessions /\ FinishQuiz(session)

NextFrame ==
    \/ \E session \in FrameSessions : FrameSession(session)
    \/ Restart

SpecFrame == InitFrame /\ [][NextFrame]_vars

(* the entries of dict d for the topics other than t *)
C24_Others(d, t) == [k \in {j \in DOMAIN d : j[2] # t} |-> d[k]]

(* C24: a session with no topic (mixed quiz, review, daily challenge,      *)
(* placement) leaves mastery_levels and review_schedule of every topic     *)
(* unchanged, in memory and in the file; a session of topic T leaves the   *)
(* entries of every other topic unchanged and stores T's mastery and T's   *)
(* review date.                                                            *)
C24_OnlyTheSessionTopic ==
    [][hist'.sessions = hist.sessions + 1 =>
         LET t == hist'.session.quiz_topic
         IN /\ C24_Others(self'.mastery_levels, t)
                 = C24_Others(self.mastery_levels, t)
            /\ C24_Others(self'.review_schedule, t)
                 = C24_Others(self.review_schedule, t)
            /\ C24_Others(file'.data.mastery_levels, t)
                 = C24_Others(file.data.mastery_levels, t)
            /\ C24_Others(file'.data.review_schedule, t)
                 = C24_Others(file.data.review_schedule, t)
            /\ t # 0 =>
                 /\ IntKey(t) \in DOMAIN self'.mastery_levels
                 /\ self'.mastery_levels[IntKey(t)] =
                       NewMastery(DictGet(self.mastery_levels, IntKey(t), 0),
                                  ScorePercent(hist'.session))
                 /\ self'.review_schedule[IntKey(t)] =
                       today + days_until_review(self'.mastery_levels[IntKey(t)])
      ]_vars

(* C24 witness: a quiz of topic 1 was scored 100 percent while topic 2     *)
(* held mastery 5; topic 1 is promoted and topic 2 still holds 5.          *)
C24_Witness ==
    /\ hist.sessions = 1
    /\ hist.session.quiz_topic = 1
    /\ ScorePercent(hist.session) = 100
    /\ IntKey(1) \in DOMAIN self.mastery_levels
    /\ self.mastery_levels[IntKey(1)] > 0
    /\ \E k \in DOMAIN self.mastery_levels :
          k[2] = 2 /\ self.mastery_levels[k] = 10

(***************************************************************************)
(* Write-through persistence (SpecStreak)                                  *)
(***************************************************************************)
(* C25: whenever a state-mutating engine operation has returned, the       *)
(* saved copy of streak, xp, level, freezes, mastery, schedule, memory,    *)
(* review queue and quests equals the state in memory (a dict with the     *)
(* keys json.dump gives it).                                               *)
C25_WriteThrough ==
    LET doc == JsonDocument(self)
    IN /\ file.exists
       /\ file.data.streak = doc.streak
       /\ file.data.xp = doc.xp
       /\ file.data.level = doc.level
       /\ file.data.streak_freezes = doc.streak_freezes
       /\ file.data.streak_freeze_used_today = doc.streak_freeze_used_today
       /\ file.data.mastery_levels = doc.mastery_levels
       /\ file.data.review_schedule = doc.review_schedule
       /\ file.data.question_memory = doc.question_memory
       /\ file.data.review_queue = doc.review_queue
       /\ file.data.active_quests = doc.active_quests
       /\ file.data.completed_quests = doc.completed_quests

(***************************************************************************)
(* One day of quests (SpecQuestDay).  The learner has answered questions   *)
(* of the topics 1..MaxDayTopic before; on one day quest progress is       *)
(* reported, topic quizzes are scored and the program is restarted.        *)
(***************************************************************************)
DayRecords ==
    {a \in [correct : 0..MaxDayAttempts, total : 1..MaxDayAttempts] :
        a.correct <= a.total}

DayTables ==
    UNION {[{StrKey(t) : t \in tried} -> DayRecords] :
              tried \in SUBSET (1..MaxDayTopic)}

InitQuestDay ==
    /\ today = 0
    /\ \E acc \in DayTables :
          LET w == Boot(save_data([Boot(NoFile, 0) EXCEPT
                                     !.self.topic_accuracy = acc,
                                     !.self.active_quests = <<>>]).file, 0)
          IN self = w.self /\ file = w.file
    /\ hist = NoHist
    /\ quiz = NoQuiz
    /\ stack = <<>>

(* topic quizzes, as the topic page starts them *)
DaySessions ==
    {[quiz_topic |-> t, is_test |-> FALSE, is_review |-> FALSE,
      is_daily_challenge |-> FALSE,
      total |-> r[1], correct |-> r[2], time_taken |-> 60] :
        t \in Topics, r \in SessionResults}

DaySession(session) == hist.sessions < MaxDaySessions /\ FinishQuiz(session)

NextQuestDay ==
    \/ \E call \in QuestCalls :
          UpdateQuestProgress(call.quest_type, call.amount, call.topic)
    \/ \E session \in DaySessions : DaySession(session)
    \/ Restart

SpecQuestDay == InitQuestDay /\ [][NextQuestDay]_vars

(* C26: across quest progress updates, scored sessions and restarts on one *)
(* day, no quest id occurs more than once in completed_quests, and no step *)
(* completes (and rewards) a quest whose id is already completed.          *)
C26_OneRewardPerQuest ==
    /\ [](Cardinality(QuestIds(self.completed_quests))
            = Cardinality(self.completed_quests))
    /\ [][QuestIds(self'.completed_quests \ self.completed_quests)
            \cap QuestIds(self.completed_quests) = {}]_vars

(***************************************************************************)
(* Earned freezes (SpecEarn).  Quiz games are scored on the days           *)
(* 0..MaxEarnDay, several on one day or none.                              *)
(***************************************************************************)
(* the quiz game: no topic; all answers right, or 6 of 10 *)
EarnSessions ==
    {[quiz_topic |-> 0, is_test |-> FALSE, is_review |-> FALSE,
      is_daily_challenge |-> FALSE,
      total |-> r[1], correct |-> r[2], time_taken |-> 60] :
        r \in {<<5, 5>>, <<10, 6>>}}

EarnSession(session) ==
    hist.sessions < MaxEarnSessions /\ FinishedQuiz(session)

EarnDayPasses == today < MaxEarnDay /\ NextDay

NextEarn ==
    \/ \E session \in EarnSessions : EarnSession(session)
    \/ EarnDayPasses

SpecEarn == Init /\ [][NextEarn]_vars

(* C27: a scored session earns one freeze exactly when it is the session   *)
(* that brings the streak to a positive multiple of 5 (the first session   *)
(* of its day) and fewer than 5 freezes are held; every other session,     *)
(* later sessions of that day included, earns none.                        *)
C27_OneFreezePerFifthDay ==
    [][hist'.sessions = hist.sessions + 1 =>
         self'.streak_freezes - self.streak_freezes =
            (IF /\ self'.streak > 0 /\ self'.streak % 5 = 0
                /\ self'.streak # self.streak
                /\ self.streak_freezes < MaxFreezes
             THEN 1 ELSE 0)
      ]_vars

(***************************************************************************)
(* The timed quiz on screen (SpecTimer).  quiz holds len(current_questions)*)
(* (0 before the first start_quiz), current_question_index,                *)
(* len(quiz_answers), whether the time limit has passed since start_time,  *)
(* whether the widget self.timer_label exists, the number of pending       *)
(* root.after(1000, self.update_timer) callbacks and the page on screen.   *)
(* A handler is an operator on [quiz, runs]: the quiz, and the sessions    *)
(* its finish_quiz calls have read, which the action then scores in        *)
(* order.  hist.started counts the quizzes started and hist.scored the     *)
(* finish_quiz runs since the last start.                                  *)
(***************************************************************************)
(* the daily challenge: all_questions[:5], time_limit=180 *)
TimedQuestions == 5
TimeLimit == 180

(* what finish_quiz reads: the answers given are right, the rest is None *)
TimedSession(q) ==
    [quiz_topic |-> 0, is_test |-> FALSE, is_review |-> FALSE,
     is_daily_challenge |-> TRUE, total |-> q.questions,
     correct |-> q.answers,
     time_taken |-> IF q.expired THEN TimeLimit ELSE 60]

(* finish_quiz: clear_window, then the scoring of the session *)
TimedFinishQuiz(m) ==
    [quiz |-> [m.quiz EXCEPT !.timer_label = FALSE, !.page = "results"],
     runs |-> Append(m.runs, TimedSession(m.quiz))]

(* update_timer *)
update_timer(m) ==
    IF m.quiz.expired THEN TimedFinishQuiz(m)
    ELSE IF m.quiz.timer_label
         THEN [m EXCEPT !.quiz.timers = @ + 1]
         ELSE m

(* show_question: after update_timer has returned the question is laid out *)
show_question(m) ==
    IF m.quiz.current_question_index >= m.quiz.questions
    THEN TimedFinishQuiz(m)
    ELSE LET m1 == update_timer([m EXCEPT !.quiz.timer_label = TRUE])
         IN [m1 EXCEPT !.quiz.page = "question"]

(* start_quiz(challenge_questions, ..., time_limit=180): the timer label   *)
(* of an earlier page is destroyed, so its own update_timer call arms      *)
(* nothing                                                                 *)
start_quiz(m) ==
    show_question([m EXCEPT !.quiz =
        [questions |-> TimedQuestions, current_question_index |-> 0,
         answers |-> 0, expired |-> FALSE, timer_label |-> FALSE,
         timers |-> m.quiz.timers, page |-> "menu"]])

(* next_question, an answer being selected *)
next_question(m) ==
    show_question([m EXCEPT
        !.quiz.answers = Max(@, m.quiz.current_question_index + 1),
        !.quiz.current_question_index = @ + 1])

(* previous_question, no answer being selected *)
previous_question(m) ==
    IF m.quiz.current_question_index > 0
    THEN show_question([m EXCEPT !.quiz.current_question_index = @ - 1])
    ELSE m

(* the finish_quiz calls of a handler, from the i-th on *)
RECURSIVE ScoreRuns(_, _, _)
ScoreRuns(w, runs, i) ==
    IF i > Len(runs) THEN w
    ELSE ScoreRuns(finish_quiz(w, runs[i], today), runs, i + 1)

Screen == [quiz |-> quiz, runs |-> <<>>]

Shows(m, started) ==
    /\ Becomes(ScoreRuns(World, m.runs, 1))
    /\ quiz' = m.quiz
    /\ hist' = [hist EXCEPT
                  !.started = @ + started,
                  !.scored = (IF started = 1 THEN 0 ELSE @) + Len(m.runs)]
    /\ UNCHANGED <<today, stack>>

(* The learner opens the daily challenge from the menu or a results page. *)
StartQuiz ==
    /\ hist.started < MaxTimedSessions
    /\ quiz.page # "question"
    /\ Shows(start_quiz(Screen), 1)

(* The learner presses Next (Finish on the last question). *)
NextQuestion ==
    /\ quiz.page = "question"
    /\ quiz.current_question_index < quiz.questions
    /\ quiz.timers < MaxTimers
    /\ hist.scored < MaxScored
    /\ Shows(next_question(Screen), 0)

(* The learner presses Previous. *)
PreviousQuestion ==
    /\ quiz.page = "question"
    /\ quiz.current_question_index > 0
    /\ quiz.timers < MaxTimers
    /\ hist.scored < MaxScored
    /\ Shows(previous_question(Screen), 0)

(* One pending callback of root.after(1000, self.update_timer) runs. *)
TimerFires ==
    /\ quiz.timers > 0
    /\ hist.scored < MaxScored
    /\ Shows(update_timer([Screen EXCEPT !.quiz.timers = @ - 1]), 0)

(* The time limit passes. *)
TimeIsUp ==
    /\ quiz.questions > 0
    /\ ~quiz.expired
    /\ quiz' = [quiz EXCEPT !.expired = TRUE]
    /\ UNCHANGED <<self, file, today, hist, stack>>

NextTimer ==
    \/ StartQuiz
    \/ NextQuestion
    \/ PreviousQuestion
    \/ TimerFires
    \/ TimeIsUp

SpecTimer == Init /\ [][NextTimer]_vars

(* C28: each started session is scored at most once: under every          *)
(* interleaving of timer callbacks and the learner's Next / Finish,        *)
(* finish_quiz has run at most once since the quiz was started, and once   *)
(* the results page is on screen it has run exactly once.                  *)
C28_ScoredOnce ==
    /\ hist.scored <= 1
    /\ (hist.started > 0 /\ quiz.page = "results") => hist.scored = 1

(***************************************************************************)
(* add_xp followed call by call (SpecXp, SpecXpFair)                       *)
(*                                                                         *)
(* stack holds the frames of the calls in progress, the innermost last.    *)
(* A frame is at "enter" before the body has run and at "save" when the    *)
(* call it made has returned and save_data is what remains.                *)
(***************************************************************************)
Frame(fn, pc, amount, achievement_name) ==
    [fn |-> fn, pc |-> pc, amount |-> amount,
     achievement_name |-> achievement_name]

Top == stack[Len(stack)]
Return == SubSeq(stack, 1, Len(stack) - 1)

(* the callee is pushed while the caller waits at "save" *)
Call(frame) ==
    /\ Len(stack) < MaxDepth
    /\ stack' = Append([stack EXCEPT ![Len(stack)].pc = "save"], frame)

(* mutant: the bonus of an achievement is a whole level *)
BonusCall_Level == Frame("add_xp", "enter", XpPerLevel, <<"", 0>>)

(* self.add_xp(50) *)
BonusCall == Frame("add_xp", "enter", AchievementBonus, <<"", 0>>)

(* A visualisation, a study page, a quest or a session calls add_xp. *)
CallAddXp(amount) ==
    /\ stack = <<>>
    /\ hist.called.n < MaxXpCalls
    /\ stack' = <<Frame("add_xp", "enter", amount, <<"", 0>>)>>
    /\ hist' = [hist EXCEPT !.called =
                  [n |-> @.n + 1, amount |-> amount, w |-> World]]
    /\ UNCHANGED <<self, file, today, quiz>>

(* add_xp up to the level test *)
AddXpEnters ==
    /\ stack # <<>>
    /\ Top.fn = "add_xp" /\ Top.pc = "enter"
    /\ LET xp == self.xp + Top.amount
           old_level == self.level
           level == 1 + (xp \div XpPerLevel)
       IN /\ self' = [self EXCEPT !.xp = xp, !.level = level]
          /\ IF level > old_level
             THEN Call(Frame("unlock_achievement", "enter", 0,
                             <<"Level", level>>))
             ELSE stack' = [stack EXCEPT ![Len(stack)].pc = "save"]
    /\ UNCHANGED <<file, today, hist, quiz>>

(* add_xp: save_data and return *)
AddXpReturns ==
    /\ stack # <<>>
    /\ Top.fn = "add_xp" /\ Top.pc = "save"
    /\ Becomes(save_data(World))
    /\ stack' = Return
    /\ UNCHANGED <<today, hist, quiz>>

(* unlock_achievement up to the call of add_xp *)
UnlockEnters ==
    /\ stack # <<>>
    /\ Top.fn = "unlock_achievement" /\ Top.pc = "enter"
    /\ IF Top.achievement_name \in self.achievements
       THEN stack' = Return /\ self' = self
       ELSE /\ self' = [self EXCEPT !.achievements =
                                       @ \cup {Top.achievement_name}]
            /\ Call(BonusCall)
    /\ UNCHANGED <<file, today, hist, quiz>>

(* unlock_achievement: save_data and return *)
UnlockReturns ==
    /\ stack # <<>>
    /\ Top.fn = "unlock_achievement" /\ Top.pc = "save"
    /\ Becomes(save_data(World))
    /\ stack' = Return
    /\ UNCHANGED <<today, hist, quiz>>

(* the interpreter runs the innermost call *)
XpStep ==
    \/ AddXpEnters
    \/ AddXpReturns
    \/ UnlockEnters
    \/ UnlockReturns

NextXp ==
    \/ \E amount \in XpAmounts : CallAddXp(amount)
    \/ XpStep

SpecXp == Init /\ [][NextXp]_vars

(* a call in progress keeps running: Python runs it to its return *)
SpecXpFair == SpecXp /\ WF_vars(XpStep)

(* C29: add_xp(amount) terminates for every amount >= 0 in every reachable *)
(* state: a call in progress returns (the stack empties) after finitely    *)
(* many steps, the recursion add_xp -> unlock_achievement -> add_xp never  *)
(* being deeper than five frames, and what the call leaves behind is what  *)
(* the recursive definition of add_xp gives.                               *)
C29_Returned ==
    (stack = <<>> /\ hist.called.n > 0) =>
        World = add_xp(hist.called.w, hist.called.amount)

C29_AddXpTerminates ==
    /\ (stack # <<>>) ~> (stack = <<>>)
    /\ [](Len(stack) <= 5)
    /\ []C29_Returned

(* a call whose bonus call levels up again has returned *)
C29_Witness ==
    /\ stack = <<>>
    /\ hist.called.n > 0
    /\ self.level >= hist.called.w.self.level + 2
    /\ self.xp = hist.called.w.self.xp + hist.called.amount
                     + 2 * AchievementBonus

====
